---- MODULE Spec2Model ----
(***************************************************************************)
(* Model of the IPL statistics chatbot: the ask pipeline of                *)
(* IPLStatsEnhancedChatbot (src/ipl_chatbot_enhanced.py) and of            *)
(* IPLStatsPostgresChatbot (src/ipl_chatbot_postgres.py).                  *)
(*                                                                         *)
(* Python strings are TLA+ strings; Python's None is the value None; a     *)
(* DataFrame is a record [cols, rows]; the two external collaborators, the *)
(* LLM and the database, answer nondeterministically.                      *)
(***************************************************************************)
EXTENDS Integers, Sequences, FiniteSets, TLC

VARIABLES
    variant,        \* which chatbot class the instance is: "enhanced" | "baseline"
    pc,             \* position of the ask call: "idle" | "llm" | "exec" | "fbexec" | "done"
    question,       \* the argument of the running ask call
    query_code,     \* ask's local query_code (None before/without a reply)
    result,         \* ask's local result of executing the synthesized query
    template,       \* the fallback template handed to _execute_query (None if none)
    fbresult,       \* the result of executing the fallback template
    answer,         \* what ask returned: [kind |-> "str", val |-> ...]
    log,            \* the calls the running ask has made, in order
    dq,             \* dispatch specification: the question
    dsel,           \* dispatch specification: what the resolver selected
    fin,            \* function specifications: the input of the function applied
    fout,           \* function specifications: its output (None before it is applied)
    chatbot,        \* the chatbot instance: its Schema Summary inputs (None if none exists)
    startup,        \* what the constructor's database calls did, in order
    shell,          \* the presentation shell: which program runs, its last response
    calls           \* concurrent calls: the other call's locals while it is not running

vars ==
    <<variant, pc, question, query_code, result, template, fbresult, answer, log, dq, dsel,
      fin, fout, chatbot, startup, shell, calls>>

None == [kind |-> "None"]

Variants == {"enhanced", "baseline"}

-----------------------------------------------------------------------------
(* Python string operations                                                *)

\* str.lower() on the letters the inputs use
UpperToLower == ("T" :> "t") @@ ("B" :> "b") @@ ("S" :> "s") @@ ("R" :> "r") @@ ("D" :> "d")

LowerChar(c) == IF c \in DOMAIN UpperToLower THEN UpperToLower[c] ELSE c

RECURSIVE lower(_)
lower(s) == IF Len(s) = 0 THEN "" ELSE LowerChar(SubSeq(s, 1, 1)) \o lower(SubSeq(s, 2, Len(s)))

\* Python's  sub in s  on strings: substring containment
In(sub, s) == \E i \in 1..(Len(s) - Len(sub) + 1) : SubSeq(s, i, i + Len(sub) - 1) = sub

\* any(word in s for word in words)
AnyIn(words, s) == \E i \in 1..Len(words) : In(words[i], s)

-----------------------------------------------------------------------------
(* Fallback templates                                                      *)

\* EnhancedTemplate1 with the year template's threshold of 200 runs
EnhancedTemplate1Min200 ==
    [cat |-> 1, year |-> 0, death |-> FALSE, paceLike |-> {}, paceIn |-> {},
     cols |-> <<"batter", "balls_faced", "total_runs", "fours", "sixes", "strike_rate",
                "times_out", "batting_average">>,
     minRunsGt |-> 200, minBalls |-> -1, minWickets |-> -1, orderBy |-> "total_runs", limit |-> 12]

\* A template is the SQL text of one canned query, kept as its parameters:
\* selected columns, row filter (year 0: no year filter), HAVING thresholds
\* (-1: no such clause), LIMIT.
EnhancedTemplate1 ==
    [cat |-> 1, year |-> 0, death |-> FALSE, paceLike |-> {}, paceIn |-> {},
     cols |-> <<"batter", "balls_faced", "total_runs", "fours", "sixes", "strike_rate",
                "times_out", "batting_average">>,
     minRunsGt |-> 500, minBalls |-> -1, minWickets |-> -1, orderBy |-> "total_runs", limit |-> 12]

EnhancedTemplate2 ==
    [cat |-> 2, year |-> 0, death |-> FALSE, paceLike |-> {}, paceIn |-> {},
     cols |-> <<"bowler", "wickets", "balls_bowled", "runs_conceded", "bowling_avg", "economy_rate">>,
     minRunsGt |-> -1, minBalls |-> -1, minWickets |-> 15, orderBy |-> "wickets", limit |-> 12]

EnhancedTemplate3 ==
    [cat |-> 3, year |-> 0, death |-> TRUE,
     paceLike |-> {"rm", "rf"}, paceIn |-> {"rm", "rfm", "rmf", "lf", "lfm", "lmf"},
     cols |-> <<"batter", "death_balls_vs_pace", "death_runs", "death_sr_vs_pace", "boundaries",
                "fours", "sixes">>,
     minRunsGt |-> -1, minBalls |-> 25, minWickets |-> -1, orderBy |-> "death_runs", limit |-> 12]

EnhancedTemplate4 ==
    [cat |-> 4, year |-> 0, death |-> TRUE, paceLike |-> {}, paceIn |-> {},
     cols |-> <<"batter", "death_balls", "death_runs", "death_sr", "boundaries">>,
     minRunsGt |-> 100, minBalls |-> 30, minWickets |-> -1, orderBy |-> "death_sr", limit |-> 12]

EnhancedTemplate5(year) ==
    [cat |-> 5, year |-> year, death |-> FALSE, paceLike |-> {}, paceIn |-> {},
     cols |-> <<"batter", "total_runs", "balls_faced", "strike_rate", "fours", "sixes",
                "times_out", "batting_average">>,
     minRunsGt |-> 200, minBalls |-> -1, minWickets |-> -1, orderBy |-> "total_runs", limit |-> 12]

BaselineTemplate1 ==
    [cat |-> 1, year |-> 0, death |-> FALSE, paceLike |-> {}, paceIn |-> {},
     cols |-> <<"batter", "total_runs">>,
     minRunsGt |-> -1, minBalls |-> -1, minWickets |-> -1, orderBy |-> "total_runs", limit |-> 10]

BaselineTemplate2 ==
    [cat |-> 2, year |-> 0, death |-> FALSE, paceLike |-> {}, paceIn |-> {},
     cols |-> <<"bowler", "wickets">>,
     minRunsGt |-> -1, minBalls |-> -1, minWickets |-> -1, orderBy |-> "wickets", limit |-> 10]

BaselineTemplate3 ==
    [cat |-> 3, year |-> 0, death |-> TRUE, paceLike |-> {"rm", "rfm", "lfm"}, paceIn |-> {},
     cols |-> <<"batter", "runs">>,
     minRunsGt |-> 50, minBalls |-> -1, minWickets |-> -1, orderBy |-> "runs", limit |-> 10]

BaselineTemplate4 ==
    [cat |-> 4, year |-> 0, death |-> TRUE, paceLike |-> {}, paceIn |-> {},
     cols |-> <<"batter", "death_runs", "death_balls", "death_sr">>,
     minRunsGt |-> -1, minBalls |-> 30, minWickets |-> -1, orderBy |-> "death_sr", limit |-> 10]

-----------------------------------------------------------------------------
(* Result tables and the rendering of their cells                          *)

\* A cell of a DataFrame row. "dec" is a database numeric (Decimal) and
\* "float" a Python float, both kept in hundredths; "nan" is the float NaN
\* pandas puts for a NULL in a numeric column, "none" is Python's None.
IntCell(n) == [k |-> "int", v |-> n]
DecCell(h) == [k |-> "dec", v |-> h]
FloatCell(h) == [k |-> "float", v |-> h]
TextCell(t) == [k |-> "text", v |-> t]
NaNCell == [k |-> "nan", v |-> 0]
NoneCell == [k |-> "none", v |-> 0]

DataFrame(cols, rows) == [kind |-> "df", cols |-> cols, rows |-> rows]

HasCol(df, c) == \E i \in 1..Len(df.cols) : df.cols[i] = c

ColIndex(df, c) == CHOOSE i \in 1..Len(df.cols) : df.cols[i] = c /\ \A j \in 1..(i - 1) : df.cols[j] # c

\* row['c']
Cell(df, row, c) == row[ColIndex(df, c)]

\* pd.notna(value)
NotNa(cell) == cell.k \notin {"nan", "none"}

Digit == <<"0", "1", "2", "3", "4", "5", "6", "7", "8", "9">>

\* str(n) for a natural number
RECURSIVE NatStr(_)
NatStr(n) == IF n < 10 THEN Digit[n + 1] ELSE NatStr(n \div 10) \o Digit[(n % 10) + 1]

IntStr(n) == IF n < 0 THEN "-" \o NatStr(-n) ELSE NatStr(n)

\* three digits, zero padded: one group of the thousands-separated form
Group3(n) == Digit[(n \div 100) + 1] \o Digit[((n \div 10) % 10) + 1] \o Digit[(n % 10) + 1]

\* f"{n:,}" for a natural number
RECURSIVE NatComma(_)
NatComma(n) == IF n < 1000 THEN NatStr(n) ELSE NatComma(n \div 1000) \o "," \o Group3(n % 1000)

IntComma(n) == IF n < 0 THEN "-" \o NatComma(-n) ELSE NatComma(n)

Abs(n) == IF n < 0 THEN -n ELSE n

Sign(h) == IF h < 0 THEN "-" ELSE ""

\* hundredths rounded to tenths, ties to even (Python's float and Decimal formatting)
RoundTenths(h) ==
    LET t == h \div 10
        r == h % 10
    IN IF r > 5 \/ (r = 5 /\ t % 2 = 1) THEN t + 1 ELSE t

\* f"{x:.1f}" of a value of h hundredths
Fixed1(h) ==
    LET t == RoundTenths(Abs(h)) IN Sign(h) \o NatStr(t \div 10) \o "." \o Digit[(t % 10) + 1]

\* f"{x:.2f}" and str(Decimal) of a value of h hundredths
Fixed2(h) ==
    LET a == Abs(h) IN
    Sign(h) \o NatStr(a \div 100) \o "." \o Digit[((a \div 10) % 10) + 1] \o Digit[(a % 10) + 1]

\* f"{x:,.0f}": hundredths rounded to units, ties to even, thousands separated
Comma0(h) ==
    LET a == Abs(h)
        u == a \div 100
        r == a % 100
        n == IF r > 50 \/ (r = 50 /\ u % 2 = 1) THEN u + 1 ELSE u
    IN Sign(h) \o NatComma(n)

\* f"{x:,}" of a Decimal of h hundredths
DecComma(h) ==
    LET a == Abs(h) IN
    Sign(h) \o NatComma(a \div 100) \o "." \o Digit[((a \div 10) % 10) + 1] \o Digit[(a % 10) + 1]

\* repr of a float of h hundredths: shortest form, at least one decimal
FloatStr(h) ==
    LET a == Abs(h) IN
    Sign(h) \o NatStr(a \div 100) \o "." \o
        (IF a % 10 = 0 THEN Digit[((a \div 10) % 10) + 1]
         ELSE Digit[((a \div 10) % 10) + 1] \o Digit[(a % 10) + 1])

\* f"{x:,}" of a float of h hundredths
FloatComma(h) ==
    LET a == Abs(h) IN
    Sign(h) \o NatComma(a \div 100) \o "." \o
        (IF a % 10 = 0 THEN Digit[((a \div 10) % 10) + 1]
         ELSE Digit[((a \div 10) % 10) + 1] \o Digit[(a % 10) + 1])

\* The outcome of rendering: the text, or an exception raised by the format
Ok(t) == [ok |-> TRUE, text |-> t]
Raise == [ok |-> FALSE, text |-> ""]

\* f"{cell}" and str(cell): never raises
Str(cell) ==
    CASE cell.k = "int" -> IntStr(cell.v)
      [] cell.k = "dec" -> Fixed2(cell.v)
      [] cell.k = "float" -> FloatStr(cell.v)
      [] cell.k = "text" -> cell.v
      [] cell.k = "nan" -> "nan"
      [] cell.k = "none" -> "None"

\* f"{cell:,}": TypeError on None, ValueError on a str
FmtComma(cell) ==
    CASE cell.k = "int" -> Ok(IntComma(cell.v))
      [] cell.k = "dec" -> Ok(DecComma(cell.v))
      [] cell.k = "float" -> Ok(FloatComma(cell.v))
      [] cell.k = "nan" -> Ok("nan")
      [] cell.k = "none" -> Raise
      [] cell.k = "text" -> Raise

\* f"{cell:.1f}": TypeError on None, ValueError on a str
FmtFixed1(cell) ==
    CASE cell.k = "int" -> Ok(Fixed1(cell.v * 100))
      [] cell.k = "dec" -> Ok(Fixed1(cell.v))
      [] cell.k = "float" -> Ok(Fixed1(cell.v))
      [] cell.k = "nan" -> Ok("nan")
      [] cell.k = "none" -> Raise
      [] cell.k = "text" -> Raise

\* cell > 0: [ok, val]; TypeError on None and on a str, False on NaN
GtZero(cell) ==
    CASE cell.k \in {"int", "dec", "float"} -> [ok |-> TRUE, val |-> cell.v > 0]
      [] cell.k = "nan" -> [ok |-> TRUE, val |-> FALSE]
      [] cell.k \in {"none", "text"} -> [ok |-> FALSE, val |-> FALSE]

-----------------------------------------------------------------------------
(* Result Formatter                                                        *)

\* the glyphs of the source, written in ASCII
Cricket == "[cricket]"
Gold == "[gold]"
Silver == "[silver]"
Bronze == "[bronze]"

\* f"{i:2d}": right aligned in two columns
Pad2(i) == IF i < 10 THEN " " \o NatStr(i) ELSE NatStr(i)

\* " | ".join(parts)
RECURSIVE JoinParts(_)
JoinParts(parts) ==
    IF Len(parts) = 0 THEN ""
    ELSE IF Len(parts) = 1 THEN parts[1]
    ELSE parts[1] \o " | " \o JoinParts(Tail(parts))

\* HeadRows that keeps every row
HeadRowsAll(df, n) == df.rows

\* df.head(n)
HeadRows(df, n) == SubSeq(df.rows, 1, IF Len(df.rows) < n THEN Len(df.rows) ELSE n)

\* row.get('batter', row.get('bowler', str(row.iloc[0])))
DisplayName(df, row) ==
    IF HasCol(df, "batter") THEN Str(Cell(df, row, "batter"))
    ELSE IF HasCol(df, "bowler") THEN Str(Cell(df, row, "bowler"))
    ELSE Str(row[1])

\* One statistic of a row: [ok, parts], parts holding the text or nothing
Part(r, prefix, suffix) ==
    IF r.ok THEN [ok |-> TRUE, parts |-> <<prefix \o r.text \o suffix>>]
    ELSE [ok |-> FALSE, parts |-> <<>>]

NoPart == [ok |-> TRUE, parts |-> <<>>]

RaisePart == [ok |-> FALSE, parts |-> <<>>]

EnhancedRunsPart(df, row) ==
    IF HasCol(df, "total_runs") THEN Part(FmtComma(Cell(df, row, "total_runs")), "**", " runs**")
    ELSE IF HasCol(df, "runs") THEN Part(FmtComma(Cell(df, row, "runs")), "**", " runs**")
    ELSE IF HasCol(df, "death_runs") THEN
        Part(FmtComma(Cell(df, row, "death_runs")), "**", " death runs**")
    ELSE NoPart

Present(df, row, c) == HasCol(df, c) /\ NotNa(Cell(df, row, c))

EnhancedStrikeRatePart(df, row) ==
    IF Present(df, row, "strike_rate") THEN Part(FmtFixed1(Cell(df, row, "strike_rate")), "SR: ", "")
    ELSE IF Present(df, row, "death_sr_vs_pace") THEN
        Part(FmtFixed1(Cell(df, row, "death_sr_vs_pace")), "Death SR: ", "")
    ELSE IF Present(df, row, "death_sr") THEN
        Part(FmtFixed1(Cell(df, row, "death_sr")), "Death SR: ", "")
    ELSE NoPart

EnhancedBattingAveragePart(df, row) ==
    IF Present(df, row, "batting_average") THEN
        LET c == Cell(df, row, "batting_average")
            g == GtZero(c)
        IN IF ~g.ok THEN RaisePart
           ELSE IF g.val THEN Part(FmtFixed1(c), "Avg: ", "")
           ELSE NoPart
    ELSE NoPart

EnhancedBoundariesPart(df, row) ==
    IF HasCol(df, "fours") /\ HasCol(df, "sixes") THEN
        Part(Ok(Str(Cell(df, row, "fours")) \o "/" \o Str(Cell(df, row, "sixes"))), "4s/6s: ", "")
    ELSE IF HasCol(df, "boundaries") THEN
        Part(Ok(Str(Cell(df, row, "boundaries"))), "Boundaries: ", "")
    ELSE NoPart

EnhancedWicketsPart(df, row) ==
    IF HasCol(df, "wickets") THEN Part(Ok(Str(Cell(df, row, "wickets"))), "**", " wickets**")
    ELSE NoPart

EnhancedBowlingAvgPart(df, row) ==
    IF Present(df, row, "bowling_avg") THEN Part(FmtFixed1(Cell(df, row, "bowling_avg")), "Avg: ", "")
    ELSE NoPart

EnhancedEconomyPart(df, row) ==
    IF Present(df, row, "economy_rate") THEN
        Part(FmtFixed1(Cell(df, row, "economy_rate")), "Eco: ", "")
    ELSE NoPart

\* 'c' in df.columns and row['c'] > 0, of the sample-size chain: [ok, val]
BallsTest(df, row, c) ==
    IF HasCol(df, c) THEN GtZero(Cell(df, row, c)) ELSE [ok |-> TRUE, val |-> FALSE]

EnhancedSamplePart(df, row) ==
    LET f == BallsTest(df, row, "balls_faced")
        p == BallsTest(df, row, "death_balls_vs_pace")
        b == BallsTest(df, row, "balls_bowled")
    IN IF ~f.ok THEN RaisePart
       ELSE IF f.val THEN Part(Ok(Str(Cell(df, row, "balls_faced"))), "(", " balls)")
       ELSE IF ~p.ok THEN RaisePart
       ELSE IF p.val THEN Part(Ok(Str(Cell(df, row, "death_balls_vs_pace"))), "(", " vs pace)")
       ELSE IF ~b.ok THEN RaisePart
       ELSE IF b.val THEN Part(Ok(Str(Cell(df, row, "balls_bowled"))), "(", " balls)")
       ELSE NoPart

EnhancedMedal(i) ==
    IF i = 1 THEN Gold ELSE IF i = 2 THEN Silver ELSE IF i = 3 THEN Bronze
    ELSE "**" \o Pad2(i) \o ".**"

\* the statistics of one row in the order the code appends them
EnhancedStats(df, row) ==
    <<EnhancedRunsPart(df, row), EnhancedStrikeRatePart(df, row),
      EnhancedBattingAveragePart(df, row), EnhancedBoundariesPart(df, row),
      EnhancedWicketsPart(df, row), EnhancedBowlingAvgPart(df, row),
      EnhancedEconomyPart(df, row), EnhancedSamplePart(df, row)>>

RECURSIVE ConcatParts(_)
ConcatParts(stats) == IF Len(stats) = 0 THEN <<>> ELSE Head(stats).parts \o ConcatParts(Tail(stats))

\* one line of the enhanced leaderboard, or the exception a statistic raised
EnhancedLine(df, i) ==
    LET row == df.rows[i]
        stats == EnhancedStats(df, row)
    IN IF \E j \in 1..Len(stats) : ~stats[j].ok THEN Raise
       ELSE Ok(EnhancedMedal(i) \o " **" \o DisplayName(df, row) \o "** - "
               \o JoinParts(ConcatParts(stats)) \o "\n")

RECURSIVE ConcatLines(_)
ConcatLines(lines) == IF Len(lines) = 0 THEN "" ELSE Head(lines).text \o ConcatLines(Tail(lines))

EnhancedRowLimit == 12

\* f"Error formatting results: {e}", the text of e left out
FormatErrorMsg == "Error formatting results: <exception>"

\* _format_enhanced_dataframe: the whole body is one try/except
FormatEnhancedDataframe(df, question_lower) ==
    LET n == Len(HeadRows(df, EnhancedRowLimit))
        lines == [i \in 1..n |-> EnhancedLine(df, i)]
    IN IF \E i \in 1..n : ~lines[i].ok THEN FormatErrorMsg
       ELSE Cricket \o " **Cricket Analytics Results:**\n\n" \o ConcatLines(lines)
            \o (IF Len(df.rows) > EnhancedRowLimit
                THEN "\n... and " \o NatStr(Len(df.rows) - EnhancedRowLimit) \o " more results"
                ELSE "")

\* a column select_dtypes(include=['number']) keeps: every cell is a number
NumericCol(df, j) == \A i \in 1..Len(df.rows) : df.rows[i][j].k \in {"int", "float", "nan"}

HasNumericCol(df) == \E j \in 1..Len(df.cols) : NumericCol(df, j)

FirstNumericCol(df) ==
    CHOOSE j \in 1..Len(df.cols) : NumericCol(df, j) /\ \A k \in 1..(j - 1) : ~NumericCol(df, k)

\* the label chosen from the question, used when no known column names the statistic
BaselineMetricName(question_lower) ==
    IF AnyIn(<<"run", "scorer", "batting">>, question_lower) THEN "runs"
    ELSE IF AnyIn(<<"wicket", "bowler">>, question_lower) THEN "wickets"
    ELSE IF In("strike rate", question_lower) THEN "strike rate"
    ELSE "points"

\* main_stat and stat_name of a row: [stat |-> cell, name |-> label]
BaselineMainStat(df, row, metric_name) ==
    IF HasCol(df, "total_runs") THEN [stat |-> Cell(df, row, "total_runs"), name |-> "runs"]
    ELSE IF HasCol(df, "runs") THEN [stat |-> Cell(df, row, "runs"), name |-> "runs"]
    ELSE IF HasCol(df, "wickets") THEN [stat |-> Cell(df, row, "wickets"), name |-> "wickets"]
    ELSE IF HasCol(df, "death_runs") THEN
        [stat |-> Cell(df, row, "death_runs"), name |-> "death runs"]
    ELSE IF HasCol(df, "strike_rate") \/ HasCol(df, "death_sr") THEN
        [stat |-> IF HasCol(df, "strike_rate") THEN Cell(df, row, "strike_rate")
                  ELSE Cell(df, row, "death_sr"),
         name |-> "SR"]
    ELSE IF HasNumericCol(df) THEN [stat |-> row[FirstNumericCol(df)], name |-> metric_name]
    ELSE [stat |-> NoneCell, name |-> metric_name]

\* value_str of a main_stat that is not None
BaselineValueStr(cell, stat_name) ==
    IF cell.k \in {"float", "nan"} THEN
        IF cell.k = "nan" THEN Ok("nan")
        ELSE IF stat_name = "SR" THEN Ok(Fixed2(cell.v))
        ELSE IF cell.v >= 10000 THEN Ok(Comma0(cell.v))
        ELSE Ok(Fixed1(cell.v))
    ELSE FmtComma(cell)

BaselineMedal(i) ==
    IF i = 1 THEN Gold ELSE IF i = 2 THEN Silver ELSE IF i = 3 THEN Bronze
    ELSE Pad2(i) \o "."

BaselineLine(df, i, metric_name) ==
    LET row == df.rows[i]
        m == BaselineMainStat(df, row, metric_name)
        head == BaselineMedal(i) \o " **" \o DisplayName(df, row) \o "**"
    IN IF m.stat.k = "none" THEN Ok(head \o "\n")
       ELSE LET v == BaselineValueStr(m.stat, m.name)
            IN IF v.ok THEN Ok(head \o " - " \o v.text \o " " \o m.name \o "\n") ELSE Raise

BaselineRowLimit == 15

\* _format_dataframe: the whole body is one try/except
FormatDataframe(df, question_lower) ==
    LET n == Len(HeadRows(df, BaselineRowLimit))
        metric_name == BaselineMetricName(question_lower)
        lines == [i \in 1..n |-> BaselineLine(df, i, metric_name)]
    IN IF \E i \in 1..n : ~lines[i].ok THEN FormatErrorMsg
       ELSE Cricket \o " **Top " \o NatStr(n) \o " Results:**\n\n" \o ConcatLines(lines)
            \o (IF Len(df.rows) > BaselineRowLimit
                THEN "\n... and " \o NatStr(Len(df.rows) - BaselineRowLimit) \o " more results"
                ELSE "")

-----------------------------------------------------------------------------
(* Fixed answers                                                           *)

ApologyMsg == "Sorry, I couldn't process your query. Please try rephrasing your question."

NoDataMsg == "No data found matching your criteria."

\* first line of the multi-line help text of _get_helpful_suggestions
EnhancedHelpMsg == "I can help you with detailed IPL cricket analytics! Try asking about: ..."

\* first line of the multi-line help text of the baseline's else branch
BaselineHelpMsg == "I couldn't understand your question. Please try asking about: ..."

\* EnhancedFormatResult without the empty-table check
EnhancedFormatResultNoEmptyCheck(res, user_question) ==
    IF res = None THEN ApologyMsg
    ELSE FormatEnhancedDataframe(res, lower(user_question))

\* _format_result of either class: result is None or a DataFrame
EnhancedFormatResult(res, user_question) ==
    IF res = None THEN ApologyMsg
    ELSE IF Len(res.rows) = 0 THEN NoDataMsg
    ELSE FormatEnhancedDataframe(res, lower(user_question))

\* BaselineFormatResult without the None check: formatting None raises and is caught
BaselineFormatResultNoNoneCheck(res, user_question) ==
    IF res = None THEN FormatErrorMsg
    ELSE IF Len(res.rows) = 0 THEN NoDataMsg
    ELSE FormatDataframe(res, lower(user_question))

BaselineFormatResult(res, user_question) ==
    IF res = None THEN ApologyMsg
    ELSE IF Len(res.rows) = 0 THEN NoDataMsg
    ELSE FormatDataframe(res, lower(user_question))

FormatResult(v, res, user_question) ==
    IF v = "enhanced" THEN EnhancedFormatResult(res, user_question)
    ELSE BaselineFormatResult(res, user_question)

-----------------------------------------------------------------------------
(* Fallback Resolver: the keyword conditions and the if/elif chain         *)

\* int(y) for the year strings of the loop; 0 stands for year = None (both falsy)
YearInt == ("2024" :> 2024) @@ ("2023" :> 2023) @@ ("2022" :> 2022) @@ ("2021" :> 2021)

EnhancedCond1(ql) ==
    /\ AnyIn(<<"top", "best", "highest">>, ql)
    /\ AnyIn(<<"run", "scorer", "batsman", "batter">>, ql)
    /\ ~AnyIn(<<"death", "2024", "2023", "2022", "pace", "bowling">>, ql)

EnhancedCond2(ql) == AnyIn(<<"wicket", "bowler">>, ql) /\ In("top", ql)

EnhancedCond3(ql) ==
    \/ (In("death", ql) /\ In("pace", ql))
    \/ (In("death over", ql) /\ (In("pace", ql) \/ In("vs pace", ql)))

EnhancedCond4(ql) == (In("strike rate", ql) \/ In("sr", ql)) /\ In("death", ql)

\* EnhancedCond5 with a year the extraction loop does not know
EnhancedCond5With2025(ql) == AnyIn(<<"2025", "2024", "2023", "2022", "2021">>, ql)

EnhancedCond5(ql) == AnyIn(<<"2024", "2023", "2022", "2021">>, ql)

\* the for loop with break: the first year of the list the question contains
RECURSIVE FirstYear(_, _)
FirstYear(years, ql) ==
    IF Len(years) = 0 THEN 0
    ELSE IF In(Head(years), ql) THEN YearInt[Head(years)]
    ELSE FirstYear(Tail(years), ql)

\* ExtractYear with the loop's list one year short of the condition's list
ExtractYearWithout2021(ql) == FirstYear(<<"2024", "2023", "2022">>, ql)

ExtractYear(ql) == FirstYear(<<"2024", "2023", "2022", "2021">>, ql)

\* EnhancedSelect with the death-overs-vs-pace branch tested before the bowling branch
EnhancedSelectDeathFirst(q) ==
    LET ql == lower(q) IN
    IF EnhancedCond1(ql) THEN [kind |-> "template", tmpl |-> EnhancedTemplate1]
    ELSE IF EnhancedCond3(ql) THEN [kind |-> "template", tmpl |-> EnhancedTemplate3]
    ELSE IF EnhancedCond2(ql) THEN [kind |-> "template", tmpl |-> EnhancedTemplate2]
    ELSE IF EnhancedCond4(ql) THEN [kind |-> "template", tmpl |-> EnhancedTemplate4]
    ELSE IF EnhancedCond5(ql) THEN
        LET year == ExtractYear(ql) IN
        IF year # 0 THEN [kind |-> "template", tmpl |-> EnhancedTemplate5(year)]
        ELSE [kind |-> "return", val |-> None]
    ELSE [kind |-> "return", val |-> [kind |-> "str", val |-> EnhancedHelpMsg]]

\* What the resolver does with the question before any database call:
\* [kind |-> "template", tmpl |-> T]   T is handed to _execute_query
\* [kind |-> "return", val |-> v]       v is returned at once
EnhancedSelect(q) ==
    LET ql == lower(q) IN
    IF EnhancedCond1(ql) THEN [kind |-> "template", tmpl |-> EnhancedTemplate1]
    ELSE IF EnhancedCond2(ql) THEN [kind |-> "template", tmpl |-> EnhancedTemplate2]
    ELSE IF EnhancedCond3(ql) THEN [kind |-> "template", tmpl |-> EnhancedTemplate3]
    ELSE IF EnhancedCond4(ql) THEN [kind |-> "template", tmpl |-> EnhancedTemplate4]
    ELSE IF EnhancedCond5(ql) THEN
        LET year == ExtractYear(ql) IN
        IF year # 0 THEN [kind |-> "template", tmpl |-> EnhancedTemplate5(year)]
        ELSE [kind |-> "return", val |-> None]      \* falls off the end of the function
    ELSE [kind |-> "return", val |-> [kind |-> "str", val |-> EnhancedHelpMsg]]

BaselineCond1(ql) == AnyIn(<<"top", "best", "highest">>, ql) /\ AnyIn(<<"run", "scorer">>, ql)

BaselineCond2(ql) == AnyIn(<<"wicket", "bowler">>, ql) /\ In("top", ql)

BaselineCond3(ql) == In("death over", ql) /\ In("pace", ql)

BaselineCond4(ql) == In("death over", ql) /\ In("strike rate", ql)

\* BaselineSelect that runs the batting leaderboard when nothing matches
BaselineSelectDefaultTemplate(q) ==
    LET ql == lower(q) IN
    IF BaselineCond1(ql) THEN [kind |-> "template", tmpl |-> BaselineTemplate1]
    ELSE IF BaselineCond2(ql) THEN [kind |-> "template", tmpl |-> BaselineTemplate2]
    ELSE IF BaselineCond3(ql) THEN [kind |-> "template", tmpl |-> BaselineTemplate3]
    ELSE IF BaselineCond4(ql) THEN [kind |-> "template", tmpl |-> BaselineTemplate4]
    ELSE [kind |-> "template", tmpl |-> BaselineTemplate1]

BaselineSelect(q) ==
    LET ql == lower(q) IN
    IF BaselineCond1(ql) THEN [kind |-> "template", tmpl |-> BaselineTemplate1]
    ELSE IF BaselineCond2(ql) THEN [kind |-> "template", tmpl |-> BaselineTemplate2]
    ELSE IF BaselineCond3(ql) THEN [kind |-> "template", tmpl |-> BaselineTemplate3]
    ELSE IF BaselineCond4(ql) THEN [kind |-> "template", tmpl |-> BaselineTemplate4]
    ELSE [kind |-> "return", val |-> [kind |-> "str", val |-> BaselineHelpMsg]]

FallbackSelect(v, q) == IF v = "enhanced" THEN EnhancedSelect(q) ELSE BaselineSelect(q)

\* the resolver's return value, given what the database answers to its template
FallbackAnswer(v, q, dbres) ==
    LET sel == FallbackSelect(v, q) IN
    IF sel.kind = "template" THEN [kind |-> "str", val |-> FormatResult(v, dbres, q)]
    ELSE sel.val

-----------------------------------------------------------------------------
(* Query Synthesizer: cleaning of the LLM reply                            *)

IsSpace(c) == c \in {" ", "\n", "\t", "\r"}

RECURSIVE LStrip(_)
LStrip(s) ==
    IF Len(s) > 0 /\ IsSpace(SubSeq(s, 1, 1)) THEN LStrip(SubSeq(s, 2, Len(s))) ELSE s

RECURSIVE RStrip(_)
RStrip(s) ==
    IF Len(s) > 0 /\ IsSpace(SubSeq(s, Len(s), Len(s))) THEN RStrip(SubSeq(s, 1, Len(s) - 1)) ELSE s

\* str.strip()
Strip(s) == LStrip(RStrip(s))

\* str.rstrip(';')
RECURSIVE RStripSemicolons(_)
RStripSemicolons(s) ==
    IF Len(s) > 0 /\ SubSeq(s, Len(s), Len(s)) = ";" THEN RStripSemicolons(SubSeq(s, 1, Len(s) - 1))
    ELSE s

\* position of the first occurrence of sub in s (sub occurs in s)
Find(sub, s) ==
    CHOOSE i \in 1..(Len(s) - Len(sub) + 1) :
        /\ SubSeq(s, i, i + Len(sub) - 1) = sub
        /\ \A j \in 1..(i - 1) : SubSeq(s, j, j + Len(sub) - 1) # sub

\* s.split(sep)[0]
Split0(s, sep) == IF In(sep, s) THEN SubSeq(s, 1, Find(sep, s) - 1) ELSE s

\* the rest of s after the first sep (sep occurs in s)
AfterFirst(s, sep) == SubSeq(s, Find(sep, s) + Len(sep), Len(s))

\* s.split(sep)[1] (sep occurs in s)
Split1(s, sep) == Split0(AfterFirst(s, sep), sep)

\* The code-fence markers. A TLA+ string cannot hold a backtick: "^" stands for it.
Fence == "^^^"
SqlFence == "^^^sql"

\* the clean-up of response.choices[0].message.content
CleanReply(content) ==
    LET stripped == Strip(content)
        unfenced ==
            IF In(SqlFence, stripped) THEN Strip(Split0(Split1(stripped, SqlFence), Fence))
            ELSE IF In(Fence, stripped) THEN Strip(Split1(stripped, Fence))
            ELSE stripped
    IN Strip(RStripSemicolons(unfenced))

\* not query_code: None and the empty string are falsy
NoQuery(qc) == qc = None \/ qc.val = ""

-----------------------------------------------------------------------------
(* The external collaborators' answers                                     *)

MaxRows == 2

\* replies the LLM may give
LLMReplies ==
    {"SELECT \"batter\" FROM ipl_balls LIMIT 10;",
     "^^^sql\nSELECT \"batter\" FROM ipl_balls LIMIT 10;\n^^^",
     "Here is the query:\n^^^\nSELECT \"bowler\" FROM ipl_balls\n^^^",
     "",
     " ;",
     "^^^sql\n^^^"}

DecimalCols == {"strike_rate", "batting_average", "bowling_avg", "economy_rate", "death_sr",
                "death_sr_vs_pace"}

\* ROUND(x / NULLIF(COUNT(...), 0), 2) is NULL for a player with no dismissal or wicket
NullableCols == {"batting_average", "bowling_avg"}

SampleCell(col, i, nulls) ==
    IF col \in {"batter", "bowler", "team"} THEN TextCell("Player " \o NatStr(i))
    ELSE IF nulls /\ i = 1 /\ col \in NullableCols THEN NoneCell
    ELSE IF col \in DecimalCols THEN DecCell(13550 - 125 * i)
    ELSE IntCell(1350 - 100 * i)

SampleTable(cols, n, nulls) ==
    DataFrame(cols, [i \in 1..n |-> [j \in 1..Len(cols) |-> SampleCell(cols[j], i, nulls)]])

\* tables a template's execution may return
TemplateTables(tmpl) ==
    {SampleTable(tmpl.cols, n, nulls) :
        n \in 0..(IF MaxRows < tmpl.limit THEN MaxRows ELSE tmpl.limit), nulls \in BOOLEAN}

PrimaryShapes ==
    {<<"batter", "total_runs", "strike_rate", "batting_average">>,
     <<"bowler", "wickets", "bowling_avg">>,
     <<"team", "matches">>}

\* a table whose run total is text: formatting it raises
TextRunsTable == DataFrame(<<"batter", "total_runs">>, <<<<TextCell("V Kohli"), TextCell("n/a")>>>>)

\* tables the synthesized query's execution may return
PrimaryTables ==
    {SampleTable(cols, n, nulls) : cols \in PrimaryShapes, n \in 0..MaxRows, nulls \in BOOLEAN}
        \cup {TextRunsTable}

\* questions put to ask
AskQuestions ==
    {"top run scorers", "Best batter", "Top bowlers", "top wicket takers in 2024",
     "death overs vs pace", "strike rate in death overs", "sr at the death",
     "runs in 2023", "ipl 2021", "highest run scorer 2021", "top run scorers 2025", "ipl 2025",
     "who won", "", "   "}

-----------------------------------------------------------------------------
(* Construction: __init__, _connect_database, _create_data_summary         *)

\* the statistics tuple and the team list of the except branch
HardcodedStats == <<277935, 17, 1000, "2008-04-18", "2024-05-26", 2008, 2024>>

HardcodedTeams == <<"CSK", "MI", "RCB", "KKR", "SRH", "DC", "PBKS", "RR", "GT", "LSG">>

\* what the live statistics query and the live team query may return
LiveStats == <<260920, 17, 1095, "2008-04-18", "2025-06-03", 2008, 2025>>

LiveTeams ==
    <<"Chennai Super Kings", "Deccan Chargers", "Delhi Capitals", "Delhi Daredevils",
      "Gujarat Lions", "Gujarat Titans", "Kings XI Punjab", "Kochi Tuskers Kerala",
      "Kolkata Knight Riders", "Lucknow Super Giants", "Mumbai Indians", "Pune Warriors",
      "Punjab Kings", "Rajasthan Royals", "Rising Pune Supergiant",
      "Royal Challengers Bangalore", "Sunrisers Hyderabad">>

\* How the database answers _create_data_summary: both queries answered, or
\* the step that raised (the second connect, the statistics query, the team query).
SummaryOutcomes ==
    {[ok |-> TRUE, at |-> "none", stats |-> LiveStats, teams |-> LiveTeams],
     [ok |-> TRUE, at |-> "none", stats |-> LiveStats, teams |-> SubSeq(LiveTeams, 1, 2)],
     [ok |-> FALSE, at |-> "connect", stats |-> LiveStats, teams |-> <<>>],
     [ok |-> FALSE, at |-> "stats", stats |-> LiveStats, teams |-> <<>>],
     [ok |-> FALSE, at |-> "teams", stats |-> LiveStats, teams |-> <<>>]}

\* the enhanced class keeps the first 15 teams
EnhancedTeamLimit == 15

\* seq[:n]
Take(seq, n) == SubSeq(seq, 1, IF Len(seq) < n THEN Len(seq) ELSE n)

\* CreateDataSummary that keeps the live statistics when only the team query failed
CreateDataSummaryKeepStats(v, out) ==
    IF out.ok
    THEN [stats |-> out.stats,
          team_list |-> IF v = "enhanced" THEN Take(out.teams, EnhancedTeamLimit) ELSE out.teams]
    ELSE [stats |-> IF out.at = "teams" THEN out.stats ELSE HardcodedStats,
          team_list |-> HardcodedTeams]

\* _create_data_summary: the values the Schema Summary text is built from
CreateDataSummary(v, out) ==
    IF out.ok
    THEN [stats |-> out.stats,
          team_list |-> IF v = "enhanced" THEN Take(out.teams, EnhancedTeamLimit) ELSE out.teams]
    ELSE [stats |-> HardcodedStats, team_list |-> HardcodedTeams]

\* the instance __init__ leaves behind when no step raised
Instance(v, out) ==
    [class |-> v,
     data_summary |-> CreateDataSummary(v, out),
     pace_styles |-> IF v = "enhanced" THEN <<"rm", "rfm", "rmf", "lf", "lfm", "lmf">> ELSE <<>>,
     spin_styles |-> IF v = "enhanced" THEN <<"ob", "lb", "sla", "lbg", "lws">> ELSE <<>>]

\* the constructor's database calls when the connection test passed
StartupOf(out) ==
    <<[op |-> "connect", ok |-> TRUE], [op |-> "summary", ok |-> out.ok, at |-> out.at]>>

-----------------------------------------------------------------------------
(* ask                                                                     *)

Str_(t) == [kind |-> "str", val |-> t]

\* NeedsFallback that escalates an empty table only, not a failed execution
NeedsFallbackOnEmptyOnly(v, res) == res # None /\ Len(res.rows) = 0

\* line 476 (enhanced) and line 347 (baseline): does ask escalate to the fallback
NeedsFallback(v, res) ==
    IF v = "enhanced" THEN res = None \/ Len(res.rows) = 0
    ELSE res = None

\* return self._try_..._fallback_queries(question), up to its database call
EnterFallback ==
    LET sel == FallbackSelect(variant, question) IN
    IF sel.kind = "template"
    THEN /\ template' = sel.tmpl
         /\ pc' = "fbexec"
         /\ answer' = answer
         /\ log' = log \o <<[op |-> "fallback"], [op |-> "execute", of |-> "template"]>>
    ELSE /\ template' = None
         /\ pc' = "done"
         /\ answer' = sel.val
         /\ log' = log \o <<[op |-> "fallback"]>>

\* chatbot.ask(q) up to its LLM call, whoever the caller is
AskCall(q) ==
    /\ pc \in {"idle", "done"}
    /\ pc' = "llm"
    /\ question' = q
    /\ query_code' = None
    /\ result' = None
    /\ template' = None
    /\ fbresult' = None
    /\ answer' = None
    /\ log' = <<[op |-> "llm"]>>
    /\ UNCHANGED <<variant, dq, dsel, fin, fout, chatbot, startup>>

\* ask called directly on the instance
Ask(q) ==
    /\ AskCall(q)
    /\ UNCHANGED <<shell, calls>>

\* the LLM call raises (or its reply has no content): _get_query_from_llm returns None
LLMError ==
    /\ pc = "llm"
    /\ query_code' = None
    /\ EnterFallback
    /\ UNCHANGED <<variant, question, result, fbresult, dq, dsel, fin, fout, chatbot, startup, shell, calls>>

\* LLMReply that hands the cleaned reply to _execute_query even when it is empty
LLMReplyAlwaysExecutes(content) ==
    /\ pc = "llm"
    /\ query_code' = Str_(CleanReply(content))
    /\ pc' = "exec"
    /\ log' = Append(log, [op |-> "execute", of |-> "synthesized"])
    /\ UNCHANGED <<template, answer>>
    /\ UNCHANGED <<variant, question, result, fbresult, dq, dsel, fin, fout, chatbot, startup, shell, calls>>

\* line 468 / 339 returned a string: query_code = self._get_query_from_llm(question)
LLMReply(content) ==
    /\ pc = "llm"
    /\ query_code' = Str_(CleanReply(content))
    /\ IF NoQuery(query_code')
       THEN EnterFallback
       ELSE /\ pc' = "exec"
            /\ log' = Append(log, [op |-> "execute", of |-> "synthesized"])
            /\ UNCHANGED <<template, answer>>
    /\ UNCHANGED <<variant, question, result, fbresult, dq, dsel, fin, fout, chatbot, startup, shell, calls>>

\* ask after _execute_query(query_code) returned res
AfterExecPrimary(res) ==
    /\ result' = res
    /\ IF NeedsFallback(variant, res)
       THEN EnterFallback
       ELSE /\ pc' = "done"
            /\ answer' = Str_(FormatResult(variant, res, question))
            /\ log' = Append(log, [op |-> "format", of |-> "synthesized"])
            /\ UNCHANGED template
    /\ UNCHANGED <<variant, question, query_code, fbresult, dq, dsel, fin, fout, chatbot, startup, shell, calls>>

\* _execute_query(query_code) raises inside: it returns None
ExecPrimaryFail ==
    /\ pc = "exec"
    /\ AfterExecPrimary(None)

\* _execute_query(query_code) returns a DataFrame
ExecPrimaryTable ==
    /\ pc = "exec"
    /\ \E t \in PrimaryTables : AfterExecPrimary(t)

\* _format_result(result, question) on the outcome of the template's _execute_query
ReturnFormatted(res) ==
    /\ fbresult' = res
    /\ pc' = "done"
    /\ answer' = Str_(FormatResult(variant, res, question))
    /\ log' = Append(log, [op |-> "format", of |-> "template"])
    /\ UNCHANGED <<variant, question, query_code, result, template, dq, dsel, fin, fout, chatbot, startup, shell, calls>>

\* the template's _execute_query raises inside: it returns None
ExecTemplateFail ==
    /\ pc = "fbexec"
    /\ ReturnFormatted(None)

\* the template's _execute_query returns a DataFrame
ExecTemplateTable ==
    /\ pc = "fbexec"
    /\ \E t \in TemplateTables(template) : ReturnFormatted(t)

\* no second call in flight
NoCalls == [asked |-> None, constructed |-> None, saved |-> None]

\* no presentation shell: the instance is called directly
NoShell == [app |-> "none", phase |-> "serving", status |-> 0, body |-> None, refresh |-> None]

\* an instance after construction, before its first ask
Init ==
    /\ variant \in Variants
    /\ pc = "idle"
    /\ question = ""
    /\ query_code = None
    /\ result = None
    /\ template = None
    /\ fbresult = None
    /\ answer = None
    /\ log = <<>>
    /\ dq = ""
    /\ dsel = None
    /\ fin = None
    /\ fout = None
    /\ \E out \in SummaryOutcomes :
          /\ chatbot = Instance(variant, out)
          /\ startup = StartupOf(out)
    /\ shell = NoShell
    /\ calls = NoCalls

Next ==
    \/ \E q \in AskQuestions : Ask(q)
    \/ LLMError
    \/ \E content \in LLMReplies : LLMReply(content)
    \/ ExecPrimaryFail
    \/ ExecPrimaryTable
    \/ ExecTemplateFail
    \/ ExecTemplateTable

Spec == Init /\ [][Next]_vars

-----------------------------------------------------------------------------
(* The presentation shells: the Flask app (src/app_postgres.py), the       *)
(* Streamlit app (src/streamlit_app.py) and the command-line loop (main of *)
(* src/ipl_chatbot_postgres.py), each constructing and calling one chatbot *)

Apps == {"http", "streamlit", "cli"}

\* the class each program instantiates
ClassOf(app) == IF app = "http" THEN "enhanced" ELSE "baseline"

\* the last thing a shell showed its user: HTTP status (0 outside HTTP) and payload
Response(phase, status, key, text) ==
    [app |-> shell.app, phase |-> phase, status |-> status,
     body |-> [key |-> key, text |-> text], refresh |-> shell.refresh]

\* texts a user may send: the question field of POST /ask, the chat input, a typed line
ShellInputs == {"top run scorers", " Top bowlers\n", "who won", "", "   ", " \n", "quit", " Bye "}

\* the program after the chatbot could not be built: Flask keeps serving with
\* chatbot = None, st.stop() ends the Streamlit script, main returns
AfterFailedStartup ==
    IF shell.app = "http"
    THEN Response("serving", 0, "log", "Error initializing Enhanced PostgreSQL chatbot")
    ELSE Response("stopped", 0, "log", "Error initializing chatbot")

\* DATABASE_URL or GROQ_API_KEY is not set: no connection is attempted
StartupConfigMissing ==
    /\ pc = "new"
    /\ pc' = "failed"
    /\ chatbot' = None
    /\ startup' = <<>>
    /\ shell' = AfterFailedStartup
    /\ UNCHANGED <<variant, question, query_code, result, template, fbresult, answer, log,
                   dq, dsel, fin, fout, calls>>

\* __init__ when the connection test of _connect_database raises: it re-raises
ConstructConnectFail ==
    /\ pc = "new"
    /\ pc' = "failed"
    /\ chatbot' = None
    /\ startup' = <<[op |-> "connect", ok |-> FALSE]>>
    /\ shell' = AfterFailedStartup
    /\ UNCHANGED <<variant, question, query_code, result, template, fbresult, answer, log,
                   dq, dsel, fin, fout, calls>>

\* __init__ when the connection test passes: _create_data_summary never raises
ConstructOk(out) ==
    /\ pc = "new"
    /\ pc' = "idle"
    /\ chatbot' = Instance(variant, out)
    /\ startup' = StartupOf(out)
    /\ shell' = Response("serving", 0, "log", "Chatbot initialized successfully!")
    /\ UNCHANGED <<variant, question, query_code, result, template, fbresult, answer, log,
                   dq, dsel, fin, fout, calls>>

\* everything but the shell: a handler that answers without calling the chatbot
CoreUnchanged ==
    UNCHANGED <<variant, pc, question, query_code, result, template, fbresult, answer, log,
                   dq, dsel, fin, fout, chatbot, startup, calls>>

\* POST /ask with a JSON object holding a string question
HttpAsk(raw) ==
    /\ shell.app = "http" /\ shell.phase = "serving"
    /\ IF chatbot = None
       THEN /\ shell' = Response("serving", 500, "error",
                                 "PostgreSQL chatbot not initialized. Please check the database connection.")
            /\ CoreUnchanged
       ELSE IF Strip(raw) = ""
       THEN /\ shell' = Response("serving", 400, "error", "Please enter a valid question.")
            /\ CoreUnchanged
       ELSE /\ AskCall(Strip(raw))
            /\ shell' = Response("calling", 0, "question", Strip(raw))
            /\ UNCHANGED calls

\* POST /ask whose body is no JSON object or whose question is no string:
\* .get or .strip raises inside the handler's try
HttpAskBadBody ==
    /\ shell.app = "http" /\ shell.phase = "serving"
    /\ shell' = IF chatbot = None
                THEN Response("serving", 500, "error",
                              "PostgreSQL chatbot not initialized. Please check the database connection.")
                ELSE Response("serving", 500, "error", "Error processing question: <exception>")
    /\ CoreUnchanged

\* chatbot.ask returned to the /ask handler
HttpAskReturn ==
    /\ shell.app = "http" /\ shell.phase = "calling"
    /\ pc = "done"
    /\ shell' = Response("serving", 200, "answer", answer.val)
    /\ CoreUnchanged

\* refresh_materialized_views of either class: the REFRESH statements run or
\* raise inside the try; the except prints; nothing is returned either way
RefreshMaterializedViews(dbok) == [ok |-> dbok, ret |-> None, raised |-> FALSE]

\* POST /refresh
HttpRefresh(dbok) ==
    /\ shell.app = "http" /\ shell.phase = "serving"
    /\ IF chatbot = None
       THEN shell' = Response("serving", 500, "error", "Chatbot not initialized.")
       ELSE LET r == RefreshMaterializedViews(dbok) IN
            shell' = [Response("serving",
                               IF r.raised THEN 500 ELSE 200,
                               IF r.raised THEN "error" ELSE "message",
                               IF r.raised THEN "Error refreshing views: <exception>"
                               ELSE "Materialized views refreshed successfully!")
                      EXCEPT !.refresh = r]
    /\ CoreUnchanged

\* st.chat_input returned a prompt: any text that is not the empty string
StreamlitPrompt(prompt) ==
    /\ shell.app = "streamlit" /\ shell.phase = "serving"
    /\ prompt # ""
    /\ AskCall(prompt)
    /\ shell' = Response("calling", 0, "user", prompt)
    /\ UNCHANGED calls

\* chatbot.ask returned to the Streamlit script
StreamlitReturn ==
    /\ shell.app = "streamlit" /\ shell.phase = "calling"
    /\ pc = "done"
    /\ shell' = Response("serving", 0, "assistant", answer.val)
    /\ CoreUnchanged

\* one turn of the command-line loop on a typed line
CliLine(line) ==
    /\ shell.app = "cli" /\ shell.phase = "serving"
    /\ IF lower(Strip(line)) \in {"quit", "exit", "bye"}
       THEN /\ shell' = Response("stopped", 0, "log", "Thanks for using IPL Stats PostgreSQL Chatbot!")
            /\ CoreUnchanged
       ELSE IF Strip(line) = ""
       THEN /\ shell' = Response("serving", 0, "log", "Please enter a valid question.")
            /\ CoreUnchanged
       ELSE /\ AskCall(Strip(line))
            /\ shell' = Response("calling", 0, "question", Strip(line))
            /\ UNCHANGED calls

\* chatbot.ask returned to the loop, which drops the value
CliReturn ==
    /\ shell.app = "cli" /\ shell.phase = "calling"
    /\ pc = "done"
    /\ shell' = Response("serving", 0, "log", answer.val)
    /\ CoreUnchanged

\* a program at its start: no chatbot yet
InitShell ==
    /\ shell \in {[app |-> a, phase |-> "starting", status |-> 0,
                    body |-> [key |-> "log", text |-> ""], refresh |-> None] : a \in Apps}
    /\ variant = ClassOf(shell.app)
    /\ pc = "new"
    /\ chatbot = None
    /\ startup = <<>>
    /\ question = ""
    /\ query_code = None
    /\ result = None
    /\ template = None
    /\ fbresult = None
    /\ answer = None
    /\ log = <<>>
    /\ dq = ""
    /\ dsel = None
    /\ fin = None
    /\ fout = None
    /\ calls = NoCalls

NextShell ==
    \/ StartupConfigMissing
    \/ ConstructConnectFail
    \/ \E out \in SummaryOutcomes : ConstructOk(out)
    \/ \E raw \in ShellInputs : HttpAsk(raw)
    \/ HttpAskBadBody
    \/ HttpAskReturn
    \/ \E dbok \in BOOLEAN : HttpRefresh(dbok)
    \/ \E prompt \in ShellInputs : StreamlitPrompt(prompt)
    \/ StreamlitReturn
    \/ \E line \in ShellInputs : CliLine(line)
    \/ CliReturn
    \/ LLMError
    \/ \E content \in LLMReplies : LLMReply(content)
    \/ ExecPrimaryFail
    \/ ExecPrimaryTable
    \/ ExecTemplateFail
    \/ ExecTemplateTable

SpecShell == InitShell /\ [][NextShell]_vars

-----------------------------------------------------------------------------
(* The Fallback Resolver alone, over every question of a bounded vocabulary *)

MaxQWords == 4

\* The words questions are made of, in the order they take in a question.
\* Apart from "death over", "vs pace" and "strike rate", no keyword of the
\* resolver holds a space, so which keywords a question contains does not
\* depend on the order of its words.
Vocabulary ==
    <<"Top", "best", "highest", "runs", "scorer", "batsman", "batter", "wickets", "bowlers",
      "bowling", "death", "death overs", "vs pace", "sr", "strike rate",
      "2021", "2022", "2023", "2024", "2025">>

\* the strictly increasing sequences of at most k word positions
RECURSIVE WordChoices(_)
WordChoices(k) ==
    IF k = 0 THEN {<<>>}
    ELSE LET shorter == WordChoices(k - 1) IN
         shorter \cup
         {Append(x[1], x[2]) :
            x \in {y \in shorter \X (1..Len(Vocabulary)) :
                     /\ Len(y[1]) = k - 1
                     /\ (k = 1 \/ y[1][k - 1] < y[2])}}

\* the chosen words joined by single spaces
RECURSIVE JoinWords(_)
JoinWords(c) ==
    IF Len(c) = 0 THEN ""
    ELSE IF Len(c) = 1 THEN Vocabulary[c[1]]
    ELSE Vocabulary[c[1]] \o " " \o JoinWords(Tail(c))

Questions == {JoinWords(c) : c \in WordChoices(MaxQWords)}

\* question.lower() and the if/elif chain of _try_enhanced_fallback_queries
ResolveEnhanced ==
    /\ variant = "enhanced"
    /\ dsel = None
    /\ dsel' = EnhancedSelect(dq)
    /\ UNCHANGED <<variant, pc, question, query_code, result, template, fbresult, answer, log, dq,
                   fin, fout, chatbot, startup, shell, calls>>

\* question.lower() and the if/elif chain of _try_fallback_queries
ResolveBaseline ==
    /\ variant = "baseline"
    /\ dsel = None
    /\ dsel' = BaselineSelect(dq)
    /\ UNCHANGED <<variant, pc, question, query_code, result, template, fbresult, answer, log, dq,
                   fin, fout, chatbot, startup, shell, calls>>

InitDispatch ==
    /\ variant \in Variants
    /\ dq \in Questions
    /\ dsel = None
    /\ pc = "idle"
    /\ question = ""
    /\ query_code = None
    /\ result = None
    /\ template = None
    /\ fbresult = None
    /\ answer = None
    /\ log = <<>>
    /\ fin = None
    /\ fout = None
    /\ chatbot = Instance(variant, CHOOSE out \in SummaryOutcomes : ~out.ok /\ out.at = "stats")
    /\ startup = <<>>
    /\ shell = NoShell
    /\ calls = NoCalls

NextDispatch == ResolveEnhanced \/ ResolveBaseline

SpecDispatch == InitDispatch /\ [][NextDispatch]_vars

-----------------------------------------------------------------------------
(* The Result Formatter alone, over a bounded family of result tables      *)

MaxFmtRows == 16

\* the spec's example row: V Kohli, 1250 runs, strike rate 135.5 (a database
\* numeric or a float)
KohliTables ==
    {DataFrame(<<"batter", "total_runs", "strike_rate">>,
               <<<<TextCell("V Kohli"), IntCell(1250), sr>>>>) :
        sr \in {DecCell(13550), FloatCell(13550)}}

\* column sets of the tables: those of the templates and of synthesized queries
FormatShapes ==
    {EnhancedTemplate1.cols, EnhancedTemplate2.cols, EnhancedTemplate3.cols,
     EnhancedTemplate4.cols, BaselineTemplate3.cols, BaselineTemplate2.cols,
     <<"batter", "total_runs", "strike_rate">>,
     <<"bowler", "wickets", "strike_rate">>,
     <<"bowler", "batter", "runs">>,
     <<"team", "matches">>}

\* The table SampleTable(cols, n, FALSE) with the cell of column j in row 1
\* replaced. A NaN makes the column a float column: its other numbers are floats.
WithCell(cols, n, j, cell) ==
    LET df == SampleTable(cols, n, FALSE) IN
    DataFrame(cols, [i \in 1..n |-> [k \in 1..Len(cols) |->
        LET old == df.rows[i][k] IN
        IF i = 1 /\ k = j THEN cell
        ELSE IF k = j /\ cell = NaNCell /\ old.k = "int" THEN FloatCell(100 * old.v)
        ELSE IF k = j /\ cell = NaNCell /\ old.k = "dec" THEN FloatCell(old.v)
        ELSE old]])

\* a NULL of the database in one cell: None in an object column, NaN in a float column
NullTables ==
    {WithCell(cols, 2, j, cell) :
        cols \in FormatShapes, j \in 1..8, cell \in {NoneCell, NaNCell}}

FormatTables ==
    KohliTables
        \cup {SampleTable(cols, n, FALSE) : cols \in FormatShapes, n \in 1..MaxFmtRows}
        \cup {t \in NullTables : \E i \in 1..Len(t.cols) : ~NotNa(t.rows[1][i])}

FormatQuestions == {"top run scorers", "who won"}

\* self._format_result(result, user_question) of the enhanced class
FormatResultEnhanced ==
    /\ variant = "enhanced"
    /\ fout = None
    /\ fout' = Str_(EnhancedFormatResult(fin.df, fin.q))
    /\ UNCHANGED <<variant, pc, question, query_code, result, template, fbresult, answer, log,
                   dq, dsel, fin, chatbot, startup, shell, calls>>

\* self._format_result(result, user_question) of the baseline class
FormatResultBaseline ==
    /\ variant = "baseline"
    /\ fout = None
    /\ fout' = Str_(BaselineFormatResult(fin.df, fin.q))
    /\ UNCHANGED <<variant, pc, question, query_code, result, template, fbresult, answer, log,
                   dq, dsel, fin, chatbot, startup, shell, calls>>

InitFormat ==
    /\ variant \in Variants
    /\ fin \in [df : FormatTables, q : FormatQuestions]
    /\ fout = None
    /\ pc = "idle"
    /\ question = ""
    /\ query_code = None
    /\ result = None
    /\ template = None
    /\ fbresult = None
    /\ answer = None
    /\ log = <<>>
    /\ dq = ""
    /\ dsel = None
    /\ chatbot = Instance(variant, CHOOSE out \in SummaryOutcomes : ~out.ok /\ out.at = "stats")
    /\ startup = <<>>
    /\ shell = NoShell
    /\ calls = NoCalls

NextFormat == FormatResultEnhanced \/ FormatResultBaseline

SpecFormat == InitFormat /\ [][NextFormat]_vars

-----------------------------------------------------------------------------
(* The pace classification, over a bounded family of bowling-style codes   *)

MaxStyleLen == 3

\* the pace condition the prompt gives the LLM: LIKE patterns and an IN list
EnhancedPromptPace ==
    [like |-> {"rm", "rf"}, in |-> {"rm", "rfm", "rmf", "lf", "lfm", "lmf"}]

BaselinePromptPace == [like |-> {"rm", "rfm", "lfm"}, in |-> {}]

\* "bowling_style" LIKE '%p%' OR ... OR "bowling_style" IN (...), on one code
PaceBy(like, in, code) == (\E pat \in like : In(pat, code)) \/ code \in in

StyleLetters == {"r", "m", "f", "l", "o", "b"}

\* the strings of exactly n style letters
RECURSIVE LetterStrings(_)
LetterStrings(n) ==
    IF n = 0 THEN {""}
    ELSE {w \o c : w \in LetterStrings(n - 1), c \in StyleLetters}

\* values of the bowling_style column: the codes the classes name, and every
\* other string of style letters up to MaxStyleLen
StyleCodes ==
    {"rm", "rfm", "rmf", "lf", "lfm", "lmf", "ob", "lb", "sla", "lbg", "lws"}
        \cup UNION {LetterStrings(n) : n \in 0..MaxStyleLen}

\* the enhanced class: prompt guidance (line 89) and template 3's filter (line 379)
ClassifyEnhanced ==
    /\ variant = "enhanced"
    /\ fout = None
    /\ fout' = [prompt |-> PaceBy(EnhancedPromptPace.like, EnhancedPromptPace.in, fin),
                template |-> PaceBy(EnhancedTemplate3.paceLike, EnhancedTemplate3.paceIn, fin)]
    /\ UNCHANGED <<variant, pc, question, query_code, result, template, fbresult, answer, log,
                   dq, dsel, fin, chatbot, startup, shell, calls>>

\* the baseline class: prompt guidance (line 119) and template 3's filter (line 294)
ClassifyBaseline ==
    /\ variant = "baseline"
    /\ fout = None
    /\ fout' = [prompt |-> PaceBy(BaselinePromptPace.like, BaselinePromptPace.in, fin),
                template |-> PaceBy(BaselineTemplate3.paceLike, BaselineTemplate3.paceIn, fin)]
    /\ UNCHANGED <<variant, pc, question, query_code, result, template, fbresult, answer, log,
                   dq, dsel, fin, chatbot, startup, shell, calls>>

InitPace ==
    /\ variant \in Variants
    /\ fin \in StyleCodes
    /\ fout = None
    /\ pc = "idle"
    /\ question = ""
    /\ query_code = None
    /\ result = None
    /\ template = None
    /\ fbresult = None
    /\ answer = None
    /\ log = <<>>
    /\ dq = ""
    /\ dsel = None
    /\ chatbot = Instance(variant, CHOOSE out \in SummaryOutcomes : ~out.ok /\ out.at = "stats")
    /\ startup = <<>>
    /\ shell = NoShell
    /\ calls = NoCalls

NextPace == ClassifyEnhanced \/ ClassifyBaseline

SpecPace == InitPace /\ [][NextPace]_vars

-----------------------------------------------------------------------------
(* The reply clean-up of the Query Synthesizer, over bounded reply texts   *)

MaxReplyTokens == 4

\* the pieces replies are made of
ReplyTokens == <<"^^^sql", "^^^", "\n", " ", ";", "SELECT 1", "Here:">>

\* the concatenations of exactly n tokens
RECURSIVE TokenStrings(_)
TokenStrings(n) ==
    IF n = 0 THEN {""}
    ELSE {w \o ReplyTokens[j] : w \in TokenStrings(n - 1), j \in 1..Len(ReplyTokens)}

\* response.choices[0].message.content
Replies == UNION {TokenStrings(n) : n \in 0..MaxReplyTokens}

\* lines 204-215 (enhanced) and 150-161 (baseline): the same statements
CleanQuery ==
    /\ fout = None
    /\ fout' = Str_(CleanReply(fin))
    /\ UNCHANGED <<variant, pc, question, query_code, result, template, fbresult, answer, log,
                   dq, dsel, fin, chatbot, startup, shell, calls>>

InitClean ==
    /\ variant \in Variants
    /\ fin \in Replies
    /\ fout = None
    /\ pc = "idle"
    /\ question = ""
    /\ query_code = None
    /\ result = None
    /\ template = None
    /\ fbresult = None
    /\ answer = None
    /\ log = <<>>
    /\ dq = ""
    /\ dsel = None
    /\ chatbot = Instance(variant, CHOOSE out \in SummaryOutcomes : ~out.ok /\ out.at = "stats")
    /\ startup = <<>>
    /\ shell = NoShell
    /\ calls = NoCalls

NextClean == CleanQuery

SpecClean == InitClean /\ [][NextClean]_vars

-----------------------------------------------------------------------------
(* The two classes side by side: one question, one LLM outcome and one     *)
(* outcome of the synthesized query's execution handed to both ask methods *)

\* what the LLM call may do: raise, or reply content
LLMOutcomes ==
    {[ok |-> FALSE, content |-> ""]} \cup {[ok |-> TRUE, content |-> c] : c \in LLMReplies}

\* what _execute_query(query_code) may return: None or a DataFrame
ExecOutcomes == {None} \cup PrimaryTables

\* The way ask(q) of class v takes to its return statement, given the LLM
\* outcome and the outcome db of the synthesized query's execution:
\*   [path |-> "primary",  category |-> 0]   return of line 483 / 353
\*   [path |-> "fallback", category |-> c]   the resolver executes template c
\*   [path |-> "help",     category |-> 6]   the resolver returns the help message
\*   [path |-> "none",     category |-> 0]   the resolver falls off its end
AskPath(v, q, llm, db) ==
    LET qc == IF llm.ok THEN Str_(CleanReply(llm.content)) ELSE None
        sel == FallbackSelect(v, q)
        fb == IF sel.kind = "template" THEN [path |-> "fallback", category |-> sel.tmpl.cat]
              ELSE IF sel.val = None THEN [path |-> "none", category |-> 0]
              ELSE [path |-> "help", category |-> 6]
    IN IF NoQuery(qc) THEN fb
       ELSE IF NeedsFallback(v, db) THEN fb
       ELSE [path |-> "primary", category |-> 0]

\* both classes' ask on the same question with the same collaborator outcomes
AskSideBySide ==
    /\ fout = None
    /\ fout' = [enhanced |-> AskPath("enhanced", fin.q, fin.llm, fin.db),
                baseline |-> AskPath("baseline", fin.q, fin.llm, fin.db)]
    /\ UNCHANGED <<variant, pc, question, query_code, result, template, fbresult, answer, log,
                   dq, dsel, fin, chatbot, startup, shell, calls>>

InitPair ==
    /\ variant \in Variants
    /\ fin \in [q : AskQuestions, llm : LLMOutcomes, db : ExecOutcomes]
    /\ fout = None
    /\ pc = "idle"
    /\ question = ""
    /\ query_code = None
    /\ result = None
    /\ template = None
    /\ fbresult = None
    /\ answer = None
    /\ log = <<>>
    /\ dq = ""
    /\ dsel = None
    /\ chatbot = Instance(variant, CHOOSE out \in SummaryOutcomes : ~out.ok /\ out.at = "stats")
    /\ startup = <<>>
    /\ shell = NoShell
    /\ calls = NoCalls

NextPair == AskSideBySide

SpecPair == InitPair /\ [][NextPair]_vars

-----------------------------------------------------------------------------
(* Two ask calls in flight on one instance (the Flask server handles       *)
(* requests in threads). question, query_code, result and the other names  *)
(* of ask are locals of one call: the variables of the ask section hold    *)
(* those of the call that is running, calls.saved those of the other call, *)
(* and the scheduler may change between the two after any step.            *)

ConcQuestions == {"top run scorers", "who won"}

\* the locals of the running call, with the argument it was called with
Locals ==
    [pc |-> pc, question |-> question, query_code |-> query_code, result |-> result,
     template |-> template, fbresult |-> fbresult, answer |-> answer, log |-> log,
     asked |-> calls.asked]

\* a thread that has not called ask yet
IdleLocals ==
    [pc |-> "idle", question |-> "", query_code |-> None, result |-> None,
     template |-> None, fbresult |-> None, answer |-> None, log |-> <<>>, asked |-> None]

\* chatbot.ask(question) in the running thread
ConcAsk(q) ==
    /\ calls.saved # None
    /\ AskCall(q)
    /\ calls' = [calls EXCEPT !.asked = Str_(q)]
    /\ UNCHANGED shell

\* Switch for a question kept in one place shared by both calls
SwitchSharedQuestion ==
    /\ calls.saved # None
    /\ pc' = calls.saved.pc
    /\ question' = question
    /\ query_code' = calls.saved.query_code
    /\ result' = calls.saved.result
    /\ template' = calls.saved.template
    /\ fbresult' = calls.saved.fbresult
    /\ answer' = calls.saved.answer
    /\ log' = calls.saved.log
    /\ calls' = [calls EXCEPT !.asked = calls.saved.asked, !.saved = Locals]
    /\ UNCHANGED <<variant, dq, dsel, fin, fout, chatbot, startup, shell>>

\* the other thread is scheduled: each call keeps its own locals
Switch ==
    /\ calls.saved # None
    /\ pc' = calls.saved.pc
    /\ question' = calls.saved.question
    /\ query_code' = calls.saved.query_code
    /\ result' = calls.saved.result
    /\ template' = calls.saved.template
    /\ fbresult' = calls.saved.fbresult
    /\ answer' = calls.saved.answer
    /\ log' = calls.saved.log
    /\ calls' = [calls EXCEPT !.asked = calls.saved.asked, !.saved = Locals]
    /\ UNCHANGED <<variant, dq, dsel, fin, fout, chatbot, startup, shell>>

\* one constructed instance and two threads that have not called it yet
InitConc ==
    /\ variant \in Variants
    /\ pc = "idle"
    /\ question = ""
    /\ query_code = None
    /\ result = None
    /\ template = None
    /\ fbresult = None
    /\ answer = None
    /\ log = <<>>
    /\ dq = ""
    /\ dsel = None
    /\ fin = None
    /\ fout = None
    /\ \E out \in {o \in SummaryOutcomes : o.ok /\ o.teams = LiveTeams} :
          /\ chatbot = Instance(variant, out)
          /\ startup = StartupOf(out)
    /\ shell = NoShell
    /\ calls = [asked |-> None, constructed |-> chatbot, saved |-> IdleLocals]

NextConc ==
    \/ \E q \in ConcQuestions : ConcAsk(q)
    \/ Switch
    \/ LLMError
    \/ \E content \in LLMReplies : LLMReply(content)
    \/ ExecPrimaryFail
    \/ ExecPrimaryTable
    \/ ExecTemplateFail
    \/ ExecTemplateTable

SpecConc == InitConc /\ [][NextConc]_vars

-----------------------------------------------------------------------------
(* Properties                                                              *)

InLog(e) == \E i \in 1..Len(log) : log[i] = e

CountLog(e) == Cardinality({i \in 1..Len(log) : log[i] = e})

ExecSynth == [op |-> "execute", of |-> "synthesized"]
ExecTmpl == [op |-> "execute", of |-> "template"]
FormatSynth == [op |-> "format", of |-> "synthesized"]
FormatTmpl == [op |-> "format", of |-> "template"]
FallbackCall == [op |-> "fallback"]

IsTable(res) == res # None
IsEmptyTable(res) == res # None /\ Len(res.rows) = 0

HelpMsg(v) == IF v = "enhanced" THEN EnhancedHelpMsg ELSE BaselineHelpMsg

\* the keyword condition of category c in variant v (the baseline has no category 5)
FallbackCond(v, c, ql) ==
    IF v = "enhanced" THEN
        CASE c = 1 -> EnhancedCond1(ql)
          [] c = 2 -> EnhancedCond2(ql)
          [] c = 3 -> EnhancedCond3(ql)
          [] c = 4 -> EnhancedCond4(ql)
          [] c = 5 -> EnhancedCond5(ql)
    ELSE
        CASE c = 1 -> BaselineCond1(ql)
          [] c = 2 -> BaselineCond2(ql)
          [] c = 3 -> BaselineCond3(ql)
          [] c = 4 -> BaselineCond4(ql)
          [] c = 5 -> FALSE

\* the category a selection stands for: 6 is the help message, 0 a return of None
Category(sel) ==
    IF sel.kind = "template" THEN sel.tmpl.cat
    ELSE IF sel.val = None THEN 0
    ELSE 6

MinOf(S) == CHOOSE m \in S : \A x \in S : m <= x

\* every execution of the running ask failed: the database is unreachable
AllExecFailed ==
    /\ InLog(ExecSynth) \/ InLog(ExecTmpl)
    /\ InLog(ExecSynth) => result = None
    /\ InLog(ExecTmpl) => fbresult = None

\* C1: ask returns a string whatever the LLM and the database answer, in both
\* variants: when the call is over its value is a string (never None, never an
\* exception), and it is over after at most five calls.
C1_AskReturnsString ==
    /\ pc = "done" => answer.kind = "str" /\ answer.val \in STRING
    /\ pc # "done" => answer = None
    /\ Len(log) <= 5

\* C1 witness: a formatting exception was converted into the answer string.
C1_Witness ==
    /\ pc = "done"
    /\ InLog(FormatSynth)
    /\ answer = Str_(FormatErrorMsg)

\* C2: the formatter is applied to the synthesized query's result only when it
\* has at least one row; an empty result goes to the Fallback Resolver just as
\* a failed execution does.
C2_EmptyResultFallsBack ==
    pc = "done" =>
        /\ InLog(FormatSynth) => IsTable(result) /\ Len(result.rows) >= 1
        /\ IsEmptyTable(result) =>
              /\ InLog(FallbackCall)
              /\ answer = FallbackAnswer(variant, question, fbresult)

\* C3: after a failed LLM call and after a failed execution of the synthesized
\* query, ask returns what the Fallback Resolver returns for the question; it is
\* a string; after a failed LLM call no synthesized query was executed.
C3_FailuresIndistinguishable ==
    pc = "done" =>
        /\ (query_code = None \/ (InLog(ExecSynth) /\ result = None)) =>
              /\ InLog(FallbackCall)
              /\ answer = FallbackAnswer(variant, question, fbresult)
              /\ answer.kind = "str"
        /\ query_code = None => ~InLog(ExecSynth) /\ result = None

\* C3 witness: the synthesized query failed and the fallback's leaderboard came back.
C3_Witness ==
    /\ pc = "done"
    /\ InLog(ExecSynth) /\ result = None
    /\ IsTable(fbresult) /\ Len(fbresult.rows) >= 1
    /\ answer = Str_(FormatResult(variant, fbresult, question))

\* C4 as stated: whenever a query ask executed yields zero rows, the answer is
\* the fixed no-data message.
C4_EmptyTableNoData ==
    pc = "done" /\ (IsEmptyTable(result) \/ IsEmptyTable(fbresult)) => answer = Str_(NoDataMsg)

\* C4 amended: whenever the table ask hands to the Result Formatter has zero
\* rows, the answer is the fixed no-data message, whatever the question.
C4_EmptyFormattedNoData ==
    pc = "done" =>
        /\ InLog(FormatTmpl) /\ IsEmptyTable(fbresult) => answer = Str_(NoDataMsg)
        /\ InLog(FormatSynth) /\ IsEmptyTable(result) => answer = Str_(NoDataMsg)

\* C4 witness: an empty template result was formatted in the enhanced variant.
C4_Witness ==
    /\ pc = "done"
    /\ variant = "enhanced"
    /\ InLog(FormatTmpl) /\ IsEmptyTable(fbresult)
    /\ answer = Str_(NoDataMsg)

C6_FirstMatch ==
    dsel # None =>
        LET ql == lower(dq)
            matching == {c \in 1..5 : FallbackCond(variant, c, ql)}
        IN IF matching = {} THEN dsel = [kind |-> "return", val |-> Str_(HelpMsg(variant))]
           ELSE dsel.kind = "template" /\ dsel.tmpl.cat = MinOf(matching)

\* C6 witness: the conditions of categories 2 and 3 both hold for a question
\* with top, bowler, death and pace, and category 2 is selected.
C6_Witness ==
    /\ dsel # None
    /\ FallbackCond(variant, 2, lower(dq))
    /\ FallbackCond(variant, 3, lower(dq))
    /\ Category(dsel) = 2

\* C7: the all-time batting template is never selected for a question with
\* death, pace, bowling or a known year; top + run + one known year (and none
\* of death/pace/bowling/wicket/bowler) gets that year's template.
C7_YearNeverAllTime ==
    dsel # None /\ variant = "enhanced" =>
        LET ql == lower(dq) IN
        /\ AnyIn(<<"death", "pace", "bowling", "2021", "2022", "2023", "2024">>, ql)
              => Category(dsel) # 1
        /\ \A y \in {"2021", "2022", "2023", "2024"} :
              ( /\ AnyIn(<<"top", "best", "highest">>, ql)
                /\ AnyIn(<<"run", "scorer", "batsman">>, ql)
                /\ In(y, ql)
                /\ ~AnyIn(<<"death", "pace", "bowling", "wicket", "bowler">>, ql)
                /\ \A z \in {"2021", "2022", "2023", "2024"} \ {y} : ~In(z, ql) )
              => dsel.kind = "template" /\ dsel.tmpl.cat = 5 /\ dsel.tmpl.year = YearInt[y]

\* C8 as stated: a year template holds one of the four known years, and a
\* question with "2025" and no known year gets the help message.
C8_UnknownYearHelp ==
    dsel # None /\ variant = "enhanced" =>
        LET ql == lower(dq) IN
        /\ Category(dsel) = 5 => dsel.tmpl.year \in {2021, 2022, 2023, 2024}
        /\ In("2025", ql) /\ ~AnyIn(<<"2021", "2022", "2023", "2024">>, ql)
              => dsel = [kind |-> "return", val |-> Str_(EnhancedHelpMsg)]

\* C8 amended: a year template holds one of the four known years, one the
\* question contains; a question with "2025" and no known year never gets a year
\* template nor a return of None: it gets the help message exactly when no
\* condition of the categories 1 to 4 holds, and that category's template otherwise.
C8_UnknownYearNoTemplate ==
    dsel # None /\ variant = "enhanced" =>
        LET ql == lower(dq) IN
        /\ Category(dsel) # 0
        /\ Category(dsel) = 5 =>
              /\ dsel.tmpl.year \in {2021, 2022, 2023, 2024}
              /\ In(NatStr(dsel.tmpl.year), ql)
        /\ In("2025", ql) /\ ~AnyIn(<<"2021", "2022", "2023", "2024">>, ql) =>
              /\ Category(dsel) \in {1, 2, 3, 4, 6}
              /\ Category(dsel) = 6 <=> \A c \in 1..4 : ~FallbackCond("enhanced", c, ql)

\* C8 witness: "2025" alone in a question is answered by the help message.
C8_Witness ==
    /\ dsel = [kind |-> "return", val |-> Str_(EnhancedHelpMsg)]
    /\ variant = "enhanced"
    /\ In("2025", lower(dq))
    /\ Len(dq) > 4

\* C9: when no condition matches, the resolver returns the help message as a
\* normal answer without executing any template, and ask returns it unchanged.
C9_NoMatchHelp ==
    pc = "done" /\ InLog(FallbackCall)
        /\ (\A c \in 1..5 : ~FallbackCond(variant, c, lower(question))) =>
        /\ answer = Str_(HelpMsg(variant))
        /\ ~InLog(ExecTmpl) /\ ~InLog(FormatTmpl)
        /\ template = None /\ fbresult = None

\* C9 witness: the synthesized query failed and no condition matched.
C9_Witness ==
    /\ pc = "done"
    /\ InLog(ExecSynth) /\ result = None
    /\ InLog(FallbackCall)
    /\ answer = Str_(HelpMsg(variant))
    /\ question = "ipl 2025"

\* C10: when the execution of a selected template fails, the resolver returns
\* the generic apology string, and the template was executed once.
C10_TemplateFailureApology ==
    pc = "done" /\ InLog(ExecTmpl) /\ fbresult = None =>
        /\ answer = Str_(ApologyMsg)
        /\ CountLog(ExecTmpl) = 1
        /\ template # None

\* C10 witness: the year-filtered template failed.
C10_Witness ==
    /\ pc = "done"
    /\ InLog(ExecTmpl) /\ fbresult = None
    /\ template # None /\ template.cat = 5
    /\ answer = Str_(ApologyMsg)

\* s.split("\n")
RECURSIVE Lines(_)
Lines(s) == IF In("\n", s) THEN <<Split0(s, "\n")>> \o Lines(AfterFirst(s, "\n")) ELSE <<s>>

StartsWith(s, prefix) == Len(s) >= Len(prefix) /\ SubSeq(s, 1, Len(prefix)) = prefix

\* C11: for the one-row table (V Kohli, 1250, 135.5) the output of either
\* variant's formatter has the row as its first entry, marked with the rank-1
\* glyph, and the entry holds the name, "1,250" and "135.5".
C11_KohliRow ==
    fout # None /\ fin.df \in KohliTables =>
        LET ls == Lines(fout.val) IN
        /\ Len(ls) >= 3
        /\ StartsWith(ls[3], Gold)
        /\ In("V Kohli", ls[3])
        /\ In("1,250", fout.val)
        /\ In("135.5", fout.val)

\* C11 restricted to the enhanced variant, where it holds
C11_KohliRowEnhanced == variant = "enhanced" => C11_KohliRow

\* C12: the prompt's pace condition and the death-overs-vs-pace template's
\* filter agree on every bowling-style code; each of rm, rfm, rmf, lf, lfm,
\* lmf is pace by both, and ob is pace by neither.
C12_PaceSamePredicate ==
    fout # None =>
        /\ fout.prompt = fout.template
        /\ fin \in {"rm", "rfm", "rmf", "lf", "lfm", "lmf"} => fout.prompt /\ fout.template
        /\ fin = "ob" => ~fout.prompt /\ ~fout.template

\* C12 restricted to the enhanced variant, where it holds
C12_PaceSamePredicateEnhanced == variant = "enhanced" => C12_PaceSamePredicate

\* in the baseline the prompt and the template agree with each other
C12_BaselineAgree == fout # None => fout.prompt = fout.template

\* the constructor's connection test passed / raised
ConnectPassed == Len(startup) >= 1 /\ startup[1].op = "connect" /\ startup[1].ok
ConnectRaised == Len(startup) >= 1 /\ startup[1].op = "connect" /\ ~startup[1].ok

\* the statistics or the team query (or the second connect) raised
SummaryRaised == Len(startup) = 2 /\ startup[2].op = "summary" /\ ~startup[2].ok

\* C13: when the connection test passes an instance exists, and if the
\* statistics or team query failed its Schema Summary holds the hardcoded
\* statistics tuple and team list; when the connection test raises there is
\* no instance and ask is never reached.
C13_Construction ==
    /\ ConnectPassed => chatbot # None /\ chatbot.class = variant /\ pc \notin {"new", "failed"}
    /\ ConnectPassed /\ SummaryRaised =>
          chatbot.data_summary = [stats |-> HardcodedStats, team_list |-> HardcodedTeams]
    /\ ConnectRaised =>
          /\ chatbot = None /\ pc = "failed"
          /\ log = <<>> /\ answer = None /\ shell.phase # "calling"
    /\ chatbot = None => pc \in {"new", "failed"}

\* C13 witness: the team query failed, the instance was built on the hardcoded
\* values, and an ask on it has returned.
C13_Witness ==
    /\ ConnectPassed /\ SummaryRaised /\ startup[2].at = "teams"
    /\ chatbot # None /\ chatbot.data_summary.stats = HardcodedStats
    /\ pc = "done"

\* an ask call is running or has returned
AskReached == pc \in {"llm", "exec", "fbexec", "done"}

\* C14: no caller boundary lets an empty or whitespace-only question reach
\* the core: the argument of every ask call is non-empty after trimming.
C14_BoundaryRejectsEmpty == AskReached => Strip(question) # ""

\* C14 holds for the /ask endpoint and the command-line loop, which trim and test
C14_HttpCliRejectEmpty == shell.app \in {"http", "cli"} => C14_BoundaryRejectsEmpty

\* C15: a failed refresh reaches the caller of refresh_materialized_views and
\* the client of /refresh as a failure status; success is reported only for
\* a refresh that succeeded.
C15_RefreshReportsOutcome ==
    shell.refresh # None =>
        /\ ~shell.refresh.ok => shell.refresh.ret # None \/ shell.refresh.raised
        /\ ~shell.refresh.ok => shell.status # 200 /\ shell.body.key = "error"
        /\ shell.status = 200 => shell.refresh.ok

RowLimit(v) == IF v = "enhanced" THEN EnhancedRowLimit ELSE BaselineRowLimit

\* the text an entry of rank i starts with: a glyph for ranks 1 to 3, the
\* plain ordinal (bold in the enhanced variant) from rank 4 on
RankPrefix(v, i) ==
    IF i <= 3 THEN <<Gold, Silver, Bronze>>[i]
    ELSE IF v = "enhanced" THEN "**" \o Pad2(i) \o ".**" ELSE Pad2(i) \o "."

\* the formatter rendered the table: no cell made a format raise
Rendered == fout # None /\ fout.val # FormatErrorMsg

WhenNotNull(df, row, cols, part) ==
    IF \A c \in cols : HasCol(df, c) => NotNa(Cell(df, row, c)) THEN part ELSE NoPart

\* the one primary count of a row: runs, or wickets, or death runs
ClaimedPrimary(df, row) ==
    IF HasCol(df, "total_runs") \/ HasCol(df, "runs") THEN
        WhenNotNull(df, row, {"total_runs", "runs"}, EnhancedRunsPart(df, row))
    ELSE IF HasCol(df, "wickets") THEN
        WhenNotNull(df, row, {"wickets"}, EnhancedWicketsPart(df, row))
    ELSE WhenNotNull(df, row, {"death_runs"}, EnhancedRunsPart(df, row))

\* the sample-size annotation: the first of the three ball counts that is
\* present, not null and positive
ClaimedSample(df, row) ==
    LET usable(c) == Present(df, row, c) /\ GtZero(Cell(df, row, c)).val IN
    IF usable("balls_faced") THEN Part(Ok(Str(Cell(df, row, "balls_faced"))), "(", " balls)")
    ELSE IF usable("death_balls_vs_pace") THEN
        Part(Ok(Str(Cell(df, row, "death_balls_vs_pace"))), "(", " vs pace)")
    ELSE IF usable("balls_bowled") THEN
        Part(Ok(Str(Cell(df, row, "balls_bowled"))), "(", " balls)")
    ELSE NoPart

\* the statistics of a row in the priority order of the specification
ClaimedStats(df, row) ==
    <<ClaimedPrimary(df, row),
      EnhancedStrikeRatePart(df, row),
      EnhancedBattingAveragePart(df, row),
      WhenNotNull(df, row, {"fours", "sixes", "boundaries"}, EnhancedBoundariesPart(df, row)),
      EnhancedBowlingAvgPart(df, row),
      EnhancedEconomyPart(df, row),
      ClaimedSample(df, row)>>

\* C17: every entry of the enhanced formatter lists the statistics in the
\* order primary count, strike rate, batting average, boundaries, bowling
\* average, economy, sample size, leaving out every statistic whose column is
\* absent or whose value is null; a null never makes the answer an error string.
C17_StatsOrderAndNulls ==
    variant = "enhanced" /\ fout # None =>
        /\ fout.val # FormatErrorMsg
        /\ LET ls == Lines(fout.val)
               n == Len(fin.df.rows)
               m == IF n < EnhancedRowLimit THEN n ELSE EnhancedRowLimit
           IN \A i \in 1..m :
                LET row == fin.df.rows[i] IN
                ls[2 + i] = RankPrefix(variant, i) \o " **" \o DisplayName(fin.df, row) \o "** - "
                                \o JoinParts(ConcatParts(ClaimedStats(fin.df, row)))

\* the tables on which the code does what C17 says: no null outside the
\* columns tested with notna, wickets without a runs or strike-rate column
C17_Regular(df) ==
    /\ \A i \in 1..Len(df.rows), c \in {"total_runs", "runs", "death_runs", "fours", "sixes",
                                        "boundaries", "wickets", "balls_faced",
                                        "death_balls_vs_pace", "balls_bowled"} :
          HasCol(df, c) => NotNa(Cell(df, df.rows[i], c))
    /\ HasCol(df, "wickets") =>
          \A c \in {"total_runs", "runs", "death_runs", "strike_rate", "death_sr",
                     "death_sr_vs_pace", "batting_average", "fours", "boundaries"} : ~HasCol(df, c)

\* C17 on the regular tables, where it holds
C17_HoldsOnRegular == (fout # None /\ C17_Regular(fin.df)) => C17_StatsOrderAndNulls

\* the first available name of a row: batter, else bowler, else the first
\* column, a column without a value in the row not being available
ClaimedName(df, row) ==
    IF Present(df, row, "batter") THEN Str(Cell(df, row, "batter"))
    ELSE IF Present(df, row, "bowler") THEN Str(Cell(df, row, "bowler"))
    ELSE Str(row[1])

\* entry i of the rendered output shows the given name
EntryNamed(i, name) ==
    StartsWith(Lines(fout.val)[2 + i], RankPrefix(variant, i) \o " **" \o name \o "**")

\* C18: every entry shows the first available of the batter value, the bowler
\* value and the first column's value; a batter column without a value in
\* the row falls through to the next source.
C18_FirstAvailableName ==
    Rendered =>
        LET n == Len(fin.df.rows)
            m == IF n < RowLimit(variant) THEN n ELSE RowLimit(variant)
        IN \A i \in 1..m : EntryNamed(i, ClaimedName(fin.df, fin.df.rows[i]))

\* C18 on the tables whose name columns have a value in every row, where it holds
C18_HoldsWithoutNullNames ==
    (fout # None /\ \A i \in 1..Len(fin.df.rows), c \in {"batter", "bowler"} :
                      HasCol(fin.df, c) => NotNa(Cell(fin.df, fin.df.rows[i], c)))
        => C18_FirstAvailableName

FirstChar(s) == SubSeq(s, 1, 1)
LastChar(s) == SubSeq(s, Len(s), Len(s))

\* C19: the cleaned query is a part of the reply (of what follows the first
\* fence marker, if there is one); it neither begins nor ends with
\* whitespace, does not end with ";", holds no fence marker, and stripping
\* the terminator and the whitespace again leaves it unchanged.
C19_CleanedQuery ==
    fout # None =>
        LET c == fout.val IN
        /\ In(c, IF In(Fence, fin) THEN AfterFirst(fin, Fence) ELSE fin)
        /\ c # "" => ~IsSpace(FirstChar(c)) /\ ~IsSpace(LastChar(c))
        /\ c # "" => LastChar(c) # ";"
        /\ ~In(Fence, c)
        /\ Strip(RStripSemicolons(c)) = c

\* the part of C19 that holds for every reply: a part of the reply, no
\* surrounding whitespace, no fence marker
C19_StrippedAndUnfenced ==
    fout # None =>
        LET c == fout.val IN
        /\ In(c, IF In(Fence, fin) THEN AfterFirst(fin, Fence) ELSE fin)
        /\ c # "" => ~IsSpace(FirstChar(c)) /\ ~IsSpace(LastChar(c))
        /\ ~In(Fence, c)

\* C20: for the empty or whitespace-only question ask returns the no-match
\* help message, whatever the LLM and the database answer.
C20_EmptyQuestionHelp ==
    pc = "done" /\ Strip(question) = "" => answer = Str_(HelpMsg(variant))

\* what holds of the empty question: once the Fallback Resolver is reached it
\* matches no category and the help message is the answer
C20_EmptyFallbackHelp ==
    pc = "done" /\ Strip(question) = "" /\ InLog(FallbackCall) =>
        answer = Str_(HelpMsg(variant)) /\ template = None

\* C21: the baseline and the enhanced chatbot take the same path on the same
\* question with the same LLM outcome and the same database outcome: both
\* format the primary result, or both fall back to the same fallback
\* category, or both return the help message.
C21_SamePath ==
    fout # None =>
        /\ fout.enhanced = fout.baseline
        /\ fout.enhanced.path \in {"primary", "fallback", "help"}

\* The two classes agree on whether the primary result is formatted whenever
\* the synthesized query's execution does not return an empty table.
C21_SameEscalationOffEmpty ==
    (fout # None /\ ~IsEmptyTable(fin.db)) =>
        (fout.enhanced.path = "primary" <=> fout.baseline.path = "primary")

LLMCall == [op |-> "llm"]

FirstIndex(e) == MinOf({i \in 1..Len(log) : log[i] = e})

\* C23: within one ask call the steps are ordered and bounded: the LLM is
\* called exactly once and before any query execution; the synthesized query
\* is executed at most once; a fallback template is executed at most once and
\* only after the synthesis produced no query or the synthesized query's
\* execution failed (or, in the enhanced variant, returned no rows); so the
\* Query Executor runs at most twice per question and not at all for the
\* synthesized query when the cleaned LLM reply is empty.
C23_StepsOrderedAndBounded ==
    pc # "idle" =>
        /\ CountLog(LLMCall) = 1 /\ log[1] = LLMCall
        /\ CountLog(ExecSynth) <= 1
        /\ CountLog(ExecTmpl) <= 1
        /\ CountLog(ExecSynth) + CountLog(ExecTmpl) <= 2
        /\ (InLog(ExecSynth) /\ InLog(ExecTmpl)) => FirstIndex(ExecSynth) < FirstIndex(ExecTmpl)
        /\ InLog(ExecTmpl) =>
              \/ NoQuery(query_code) /\ ~InLog(ExecSynth)
              \/ InLog(ExecSynth) /\ result = None
              \/ InLog(ExecSynth) /\ variant = "enhanced" /\ IsEmptyTable(result)
        /\ (pc # "llm" /\ NoQuery(query_code)) => ~InLog(ExecSynth)
        /\ InLog(ExecSynth) => ~NoQuery(query_code)

\* a finished call that invoked the Query Executor twice: the synthesized
\* query failed and a fallback template was executed after it
C23_Witness ==
    /\ pc = "done"
    /\ InLog(ExecSynth) /\ result = None
    /\ InLog(ExecTmpl) /\ fbresult # None

\* what ask(q) of class v returns, given the cleaned LLM reply qc (None when
\* the LLM call failed) and the Query Executor's answers res and fbres
AnswerOf(v, q, qc, res, fbres) ==
    IF NoQuery(qc) \/ NeedsFallback(v, res) THEN FallbackAnswer(v, q, fbres)
    ELSE Str_(FormatResult(v, res, q))

\* the call with locals c works on the question it was called with and, once
\* over, has the answer that question and its own replies determine
OwnAnswer(c) ==
    /\ c.pc # "idle" => c.asked # None /\ c.question = c.asked.val
    /\ c.pc = "done" =>
          c.answer = AnswerOf(variant, c.asked.val, c.query_code, c.result, c.fbresult)

\* C22: after construction no step of ask changes the instance (Schema
\* Summary, bowling-style lists), and with two ask calls interleaved on one
\* instance each call's answer depends only on its own question and on the
\* replies it received, never on the other call.
C22_NoSharedState ==
    /\ pc # "new" /\ calls.constructed # None => chatbot = calls.constructed
    /\ calls.saved # None => OwnAnswer(Locals) /\ OwnAnswer(calls.saved)

\* one call is over while the other, asked a different question, is still
\* waiting for the database
C22_Witness ==
    /\ calls.saved # None
    /\ pc = "done"
    /\ calls.saved.pc \in {"exec", "fbexec"}
    /\ calls.saved.question # question
    /\ chatbot = calls.constructed

====
